---- MODULE Spec2Model ----
(***************************************************************************)
(* A model of the regex virtual machine of regex.rs: the instruction set   *)
(* (program.rs), the thread state SaveList (state.rs), the searchers       *)
(* (searcher.rs), the token predicate (token.rs) and the execution loop    *)
(* Program::exec_searcher (program.rs), one action per stage of the loop.  *)
(***************************************************************************)
EXTENDS Integers, Sequences, FiniteSets

\* ------------------------------------------------------------------ bounds

\* longest generated program
MaxProgLen == 2
\* longest generated input
MaxInputLen == 2
\* the calls of Searcher::next made after the one that returned None
MaxExtraCalls == 2

\* ------------------------------------------------------------------ Option

None == [some |-> FALSE]

Some(x) == [some |-> TRUE, v |-> x]

\* ------------------------------------------------------------------ token.rs

\* the whitespace characters of the model's alphabet
WhiteSpace == {" "}

\* impl Token for char: not whitespace
is_word(t) == t \notin WhiteSpace

\* TokenMap::get on a map held as a set of <<token, InstrPtr>> pairs
TokenMap_get(map, t) ==
    IF \E e \in map : e[1] = t
    THEN Some((CHOOSE e \in map : e[1] = t)[2])
    ELSE None

\* contains that holds for every token
TokenSet_contains_all(set, t) == TRUE

\* TokenSet::contains
TokenSet_contains(set, t) == t \in set

\* ------------------------------------------------------------------ searcher.rs

\* char::len_utf8 on the model's alphabet: "cent" is U+00A2, "euro" is U+20AC,
\* "hwair" is U+10348, everything else is ASCII
len_utf8(t) ==
    CASE t = "cent" -> 2
      [] t = "euro" -> 3
      [] t = "hwair" -> 4
      [] OTHER -> 1

\* IntoSearcher for &str
StrSearcher_new(input) == [kind |-> "str", next_index |-> 0, iter |-> input]

\* IterSearcher::new
IterSearcher_new(input) == [kind |-> "iter", next_index |-> 0, iter |-> input]

\* StrSearcher::next advancing by one for every char
StrSearcher_next_by_one(s) ==
    IF s.iter # << >>
    THEN [searcher |-> [s EXCEPT !.next_index = @ + 1, !.iter = Tail(s.iter)],
          idx |-> s.next_index + 1, tok |-> Some(Head(s.iter))]
    ELSE [searcher |-> s, idx |-> s.next_index, tok |-> None]

\* StrSearcher::next: the searcher afterwards, the index and the token
StrSearcher_next(s) ==
    IF s.iter # << >>
    THEN LET c == Head(s.iter)
             n == s.next_index + len_utf8(c)
         IN  [searcher |-> [s EXCEPT !.next_index = n, !.iter = Tail(s.iter)],
              idx |-> n, tok |-> Some(c)]
    ELSE [searcher |-> s, idx |-> s.next_index, tok |-> None]

\* IterSearcher::next advancing the index when the iterator is exhausted too
IterSearcher_next_counts_none(s) ==
    IF s.iter # << >>
    THEN [searcher |-> [s EXCEPT !.next_index = @ + 1, !.iter = Tail(s.iter)],
          idx |-> s.next_index + 1, tok |-> Some(Head(s.iter))]
    ELSE [searcher |-> [s EXCEPT !.next_index = @ + 1],
          idx |-> s.next_index + 1, tok |-> None]

\* IterSearcher::next
IterSearcher_next(s) ==
    IF s.iter # << >>
    THEN LET n == s.next_index + 1
         IN  [searcher |-> [s EXCEPT !.next_index = n, !.iter = Tail(s.iter)],
              idx |-> n, tok |-> Some(Head(s.iter))]
    ELSE [searcher |-> s, idx |-> s.next_index, tok |-> None]

\* Searcher::next, dispatched on the searcher's type
Searcher_next(s) ==
    IF s.kind = "str" THEN StrSearcher_next(s) ELSE IterSearcher_next(s)

\* ------------------------------------------------------------------ state.rs

\* increment_ip that leaves the pointer where it is
increment_ip_stuck(ps) == ps

\* ProgramState::increment_ip
increment_ip(ps) == [ps EXCEPT !.instruction_ptr = @ + 1]

\* with_ip that goes one instruction too far
with_ip_off_by_one(ps, new_ip) == [ps EXCEPT !.instruction_ptr = new_ip + 1]

\* ProgramState::with_ip
with_ip(ps, new_ip) == [ps EXCEPT !.instruction_ptr = new_ip]

\* optional_with_ip that never takes the new pointer
optional_with_ip_never(ps, new_ip) == ps

\* ProgramState::optional_with_ip
optional_with_ip(ps, new_ip) ==
    IF new_ip.some THEN with_ip(ps, new_ip.v) ELSE ps

\* SaveList::init: n empty slots
SaveList_init(n) == [k \in 1..n |-> None]

\* SaveList::update that grows the vector to hold a slot past its end
SaveList_update_grows(state, update, ps) ==
    [state |-> [k \in 1..(IF update < Len(state) THEN Len(state) ELSE update + 1) |->
                   IF k = update + 1 THEN Some(ps.token_index)
                   ELSE IF k <= Len(state) THEN state[k] ELSE None],
     ok |-> TRUE]

\* SaveList::update: the state afterwards and the returned flag
SaveList_update(state, update, ps) ==
    IF update < Len(state)
    THEN [state |-> [state EXCEPT ![update + 1] = Some(ps.token_index)], ok |-> TRUE]
    ELSE [state |-> state, ok |-> FALSE]

\* the Concat state of state.rs's tests: init is the empty string
Concat_init(n) == << >>

\* Concat::update: the token of the context is appended, NUL when there is none
Concat_update(state, update, ps) ==
    [state |-> Append(state, IF ps.token.some THEN ps.token.v ELSE "NUL"), ok |-> TRUE]

\* State::init of the implementation ty
State_init(ty, n) == IF ty = "Concat" THEN Concat_init(n) ELSE SaveList_init(n)

\* State::update of the implementation ty
State_update(ty, state, update, ps) ==
    IF ty = "Concat" THEN Concat_update(state, update, ps)
    ELSE SaveList_update(state, update, ps)

\* ------------------------------------------------------------------ program.rs: Instr

Instr(op, tok, ip, set, map, upd) ==
    [op |-> op, tok |-> tok, ip |-> ip, set |-> set, map |-> map, upd |-> upd]

Token(t) == Instr("Token", t, 0, {}, {}, 0)

Any == Instr("Any", "", 0, {}, {}, 0)

Map(m) == Instr("Map", "", 0, {}, m, 0)

Set(s) == Instr("Set", "", 0, s, {}, 0)

WordBoundary == Instr("WordBoundary", "", 0, {}, {}, 0)

Split(a) == Instr("Split", "", a, {}, {}, 0)

JSplit(a) == Instr("JSplit", "", a, {}, {}, 0)

Jump(a) == Instr("Jump", "", a, {}, {}, 0)

UpdateState(u) == Instr("UpdateState", "", 0, {}, {}, u)

Reject == Instr("Reject", "", 0, {}, {}, 0)

Match == Instr("Match", "", 0, {}, {}, 0)

\* Thread::new
Thread_new(pc, state) == [pc |-> pc, state |-> state]

\* ------------------------------------------------------------------ the state

VARIABLES
    prog,        \* Program::prog, the instructions (InstrPtr p is prog[p + 1])
    state_init,  \* Program::state_init
    input,       \* the tokens handed to exec
    searcher,    \* the searcher made from the input
    phase,       \* where exec_searcher stands: start, loop, sweep, done, or how it died
    curr,        \* the local curr.threads
    next,        \* the local next.threads
    states,      \* the local states, returned when phase = "done"
    word,        \* the local word
    i,           \* the local i
    calls,       \* history: the State::update calls of the last stage, in order
    events,      \* history: what the last stage did with each thread it drained
    tainted,     \* history: the last stage pushed a thread after a failed update
    eof_curr,    \* history: curr when the input ran out
    eof_base,    \* history: the number of results when the input ran out
    state_type,  \* the State implementation S of Program<T, S>
    trace,       \* history: the lists and results after every step of this exec
    first,       \* history: the trace and the result of the exec before this one
    source,      \* program!: the labelled instructions and the init the macro is given
    labels,      \* program!: the label variables bound so far, as <<name, value>>
    count,       \* program!: the counter of the macro's first loop
    ret,         \* history: what the last call of Searcher::next returned
    ncalls       \* history: the number of calls of Searcher::next so far

vars == <<prog, state_init, input, searcher, phase, curr, next, states, word, i,
          calls, events, tainted, eof_curr, eof_base, ret, ncalls, state_type,
          trace, first, source, labels, count>>

\* the variables of an expansion of program!
macro_vars == <<source, labels, count>>

\* no macro is involved: the program was given to Program::new as it is
NoMacro == source = << >> /\ labels = {} /\ count = 0

\* what an observer of exec sees after a step: the two lists and the results
Snapshot == [phase |-> phase, curr |-> curr, next |-> next, states |-> states]

\* ------------------------------------------------------------------ program.rs: ThreadList

\* ThreadList::new, with the history of the admissions made into it
ThreadList_new == [threads |-> << >>, calls |-> << >>, tainted |-> FALSE, err |-> "none"]

\* IsPushed with Reject pushed like a consuming instruction
IsPushed_with_reject(instr) ==
    instr.op \in {"Token", "Map", "Set", "Any", "WordBoundary", "Match", "Reject"}

\* the instructions add_thread pushes as a thread (its last match arm)
IsPushed(instr) ==
    instr.op \in {"Token", "Map", "Set", "Any", "WordBoundary", "Match"}

\* push that keeps one thread for each pc
push_unless_pc_listed(threads, th) ==
    IF \E k \in 1..Len(threads) : threads[k].pc = th.pc THEN threads
    ELSE Append(threads, th)

\* self.threads.push(thread): no look at the threads already listed
push(threads, th) == Append(threads, th)

\* split_order with the jump admitted first
split_order_jump_first(program_state, split) ==
    <<with_ip(program_state, split), increment_ip(program_state)>>

\* Split: the branch with no jump is admitted first, then the jump
split_order(program_state, split) ==
    <<increment_ip(program_state), with_ip(program_state, split)>>

\* jsplit_order with the branch with no jump admitted first
jsplit_order_jump_last(program_state, split) ==
    <<increment_ip(program_state), with_ip(program_state, split)>>

\* JSplit: the branch with the jump is admitted first, then the one with no jump
jsplit_order(program_state, split) ==
    <<with_ip(program_state, split), increment_ip(program_state)>>

\* the recursion depth at which add_thread must have met an instruction twice
ClosureFuel == Len(prog) + 1

\* state.clone(): the first branch of a fork gets a copy of its own
state_clone(state) == state

\* the state the first branch of a fork has left behind: the state after the
\* last update it made, the state of the fork when it made none
left_by(self, branch, state) ==
    IF Len(branch.calls) > Len(self.calls) THEN branch.calls[Len(branch.calls)].after
    ELSE state

\* the second branch working on the state the first branch has updated
moved_state_shared(state, left) == left

\* the second branch of a fork takes the fork's own state, which no update of
\* the first branch has touched
moved_state(state, left) == state

\* ThreadList::add_thread.  g is history: the stage that admits, and whether an
\* update on the way returned false.  A pc outside the program panics (err =
\* "index"); a cycle of zero-width instructions recurses forever (err = "overflow").
RECURSIVE add_thread(_, _, _, _, _)
add_thread(self, program_state, state, g, fuel) ==
    IF self.err # "none" THEN self
    ELSE IF program_state.instruction_ptr >= Len(prog) THEN [self EXCEPT !.err = "index"]
    ELSE IF fuel = 0 THEN [self EXCEPT !.err = "overflow"]
    ELSE
      LET instr == prog[program_state.instruction_ptr + 1] IN
      CASE instr.op = "Split" ->
             LET b == split_order(program_state, instr.ip)
                 branch == add_thread(self, b[1], state_clone(state), g, fuel - 1)
             IN  add_thread(branch, b[2], moved_state(state, left_by(self, branch, state)),
                            g, fuel - 1)
        [] instr.op = "JSplit" ->
             LET b == jsplit_order(program_state, instr.ip)
                 branch == add_thread(self, b[1], state_clone(state), g, fuel - 1)
             IN  add_thread(branch, b[2], moved_state(state, left_by(self, branch, state)),
                            g, fuel - 1)
        [] instr.op = "Jump" ->
             add_thread(self, with_ip(program_state, instr.ip), state, g, fuel - 1)
        [] instr.op = "UpdateState" ->
             LET r == State_update(state_type, state, instr.upd, program_state)
                 call == [instruction_ptr |-> program_state.instruction_ptr,
                          token_index |-> program_state.token_index,
                          token |-> program_state.token,
                          update |-> instr.upd, ok |-> r.ok, cause |-> g.cause,
                          before |-> state, after |-> r.state]
             IN  \* the flag update returns is not looked at
                 add_thread([self EXCEPT !.calls = Append(@, call)],
                            increment_ip(program_state), r.state,
                            [g EXCEPT !.rej = @ \/ ~r.ok], fuel - 1)
        [] IsPushed(instr) ->
             [self EXCEPT !.threads = push(@, Thread_new(program_state.instruction_ptr, state)),
                          !.tainted = @ \/ g.rej]
        [] OTHER -> self

\* ------------------------------------------------------------------ the programs and inputs

\* the instructions a generated program of length n is made of
InstrAlphabet(n) ==
    {Token("a"), Any, Set({"a"}), Map({<<"a", 0>>}), WordBoundary,
     UpdateState(0), UpdateState(1), Reject, Match}
    \cup {Split(a) : a \in 0..(n - 1)}
    \cup {JSplit(a) : a \in 0..(n - 1)}
    \cup {Jump(a) : a \in 0..(n - 1)}

\* every program of at most MaxProgLen instructions
GenPrograms ==
    UNION {[1..n -> InstrAlphabet(n)] : n \in 1..MaxProgLen}

\* every input of at most MaxInputLen tokens
GenInputs ==
    UNION {[1..n -> {"a", " "}] : n \in 0..MaxInputLen}

\* a run of exec: the program, its init value, the input and the searcher's type
Config(p, n, inp, k) == [prog |-> p, state_init |-> n, input |-> inp, kind |-> k]

\* lib.rs, tests::program: /(ab?)(b?c)\b/ after a lazy .*?, with 6 save slots
test_program ==
    <<JSplit(3), Any, Jump(0),
      UpdateState(0),
      UpdateState(2), Token("a"), Split(8), Token("b"), UpdateState(3),
      UpdateState(4), Split(12), Token("b"), Token("c"), UpdateState(5),
      WordBoundary,
      UpdateState(1), Match>>

\* a greedy a+ after a lazy .*?, with 2 save slots
aplus_program ==
    <<JSplit(3), Any, Jump(0),
      UpdateState(0), Token("a"), JSplit(4), UpdateState(1), Match>>

\* \ba
boundary_token_program == <<WordBoundary, Token("a"), Match>>

\* a(\b|), the boundary preferred; the slot set tells the two results apart
boundary_first_program ==
    <<Token("a"), Split(5), WordBoundary, UpdateState(0), Match, UpdateState(1), Match>>

\* .\b with the end saved
any_boundary_program == <<Any, WordBoundary, UpdateState(0), Match>>

\* a program whose only path to Match passes an update of a slot that does not exist
bad_slot_program == <<UpdateState(2), Match>>

ducabc == <<"d", "u", "c", "a", "b", "c">>

\* a body of two consuming instructions around a WordBoundary, bracketed by
\* the updates of slots 0 and 1
bracket_boundary_program ==
    <<UpdateState(0), Any, WordBoundary, Any, UpdateState(1), Match>>

\* slot 1 is stored before the token and slot 0 after it
end_first_program == <<UpdateState(1), Any, UpdateState(0), Match>>

\* the program of tests::program_unicode: .*? and three captured tokens
dots_program ==
    <<JSplit(3), Any, Jump(0),
      UpdateState(0),
      UpdateState(2), Any, UpdateState(3),
      UpdateState(4), Any, UpdateState(5),
      UpdateState(6), Any, UpdateState(7),
      UpdateState(1), Match>>

\* the haystack of tests::program_unicode, one more token appended
unicode_haystack == <<"$", "cent", "euro", "hwair", "a">>

\* two forks whose branches meet again: four equal threads at Match
fork_twice_program == <<Split(1), Split(2), Match>>

\* three optional updates: a thread at Match for every subset of the slots
optional_updates_program ==
    <<Split(2), UpdateState(0), Split(4), UpdateState(1), Split(6), UpdateState(2),
      Match>>

\* a greedy a* captured in slots 2, 3 or else a lazy a* captured in slots 4, 5,
\* both ending at the same Match
greedy_lazy_program ==
    <<Split(7),
      UpdateState(2), Split(5), Token("a"), Jump(2), UpdateState(3), Jump(12),
      UpdateState(4), JSplit(11), Token("a"), Jump(8), UpdateState(5),
      Match>>

\* two Maps, each followed by a Reject: the first jumps over it on "a", the
\* second on "b"
map_program ==
    <<Split(3), Map({<<"a", 5>>}), Reject, Map({<<"b", 5>>}), Reject,
      UpdateState(0), Match>>

\* updates of both slots of a 2-slot SaveList and of a slot past its end
past_end_program == <<UpdateState(0), Any, UpdateState(1), UpdateState(2), Match>>

\* threads at a Token("a"), a Token("b"), a Set, an Any and a Match side by side
step_program ==
    <<Split(2), Token("a"), Split(4), Token("b"), Split(6), Set({"b"}), Split(8), Any,
      Match>>

\* after every token a thread at a WordBoundary before a Match, a thread at a
\* Match and a thread that goes on
boundary_or_match_program == <<Any, Split(0), Split(5), WordBoundary, Match, Match>>

\* Program::new(vec![], 0): a program of no instructions
empty_program == << >>

\* a bracketed body of two consuming instructions and no WordBoundary
bracket_program == <<UpdateState(0), Any, Token("a"), UpdateState(1), Match>>

\* the runs of the repository's tests and of the examples
TestConfigs ==
    {Config(test_program, 6, ducabc, "str"),
     Config(test_program, 6, ducabc \o <<" ">>, "str"),
     Config(test_program, 6, ducabc \o <<" ">>, "iter"),
     Config(aplus_program, 2, <<"a", "a", "a", "b">>, "str"),
     Config(boundary_token_program, 0, <<"a">>, "str"),
     Config(boundary_token_program, 0, <<"x", "a">>, "str"),
     Config(boundary_first_program, 2, <<"a">>, "str"),
     Config(boundary_first_program, 2, <<"a", " ">>, "str"),
     Config(any_boundary_program, 1, <<" ", "euro">>, "str"),
     Config(any_boundary_program, 1, <<"euro", " ">>, "str"),
     Config(any_boundary_program, 1, <<"euro", " ">>, "iter"),
     Config(bad_slot_program, 2, << >>, "str"),
     Config(bad_slot_program, 2, <<"a">>, "iter"),
     Config(bracket_boundary_program, 2, <<"a", " ", "b">>, "iter"),
     Config(bracket_boundary_program, 2, <<"a", " ">>, "iter"),
     Config(bracket_program, 2, <<" ", "a", "a">>, "iter"),
     Config(end_first_program, 2, <<"euro">>, "str"),
     Config(fork_twice_program, 0, <<"a">>, "str"),
     Config(empty_program, 0, << >>, "str"),
     Config(empty_program, 0, <<"a">>, "str"),
     Config(boundary_or_match_program, 0, <<"a", "b">>, "str"),
     Config(step_program, 0, <<"a", "b">>, "str"),
     Config(past_end_program, 2, <<"euro">>, "str"),
     Config(map_program, 1, <<"a">>, "str"),
     Config(map_program, 1, <<"b">>, "str"),
     Config(map_program, 1, <<"euro">>, "str"),
     Config(greedy_lazy_program, 6, <<"a">>, "str"),
     Config(optional_updates_program, 3, << >>, "str")}
    \cup {Config(dots_program, 8, SubSeq(unicode_haystack, 1, n), k) :
              n \in 0..Len(unicode_haystack), k \in {"str", "iter"}}

Configs ==
    {Config(p, 1, inp, "str") : p \in GenPrograms, inp \in GenInputs}
    \cup TestConfigs

\* ------------------------------------------------------------------ program.rs: exec_searcher

\* the state before exec runs the program of c with states of type ty
Start(c, ty) ==
        /\ prog = c.prog
        /\ state_init = c.state_init
        /\ state_type = ty
        /\ input = c.input
        /\ searcher = IF c.kind = "str" THEN StrSearcher_new(c.input)
                      ELSE IterSearcher_new(c.input)
        /\ phase = "start"
        /\ curr = << >>
        /\ next = << >>
        /\ states = << >>
        /\ word = FALSE
        /\ i = 0
        /\ calls = << >>
        /\ events = << >>
        /\ tainted = FALSE
        /\ eof_curr = << >>
        /\ eof_base = 0
        /\ ret = [idx |-> 0, tok |-> None]
        /\ ncalls = 0
        /\ trace = << >>
        /\ first = None
        /\ NoMacro

Init == \E c \in Configs : Start(c, "SaveList")

\* let mut word = false taking over the flag of the exec before
initial_word_leftover == word

\* the ProgramState of the seed admission
seed_program_state == [instruction_ptr |-> 0, token_index |-> 0, token |-> None]

\* the initial value of the word flag
initial_word == FALSE

\* exec_searcher up to the loop: the lists, the seed admission, word and i
exec_seed ==
    /\ phase = "start"
    /\ LET r == add_thread(ThreadList_new, seed_program_state,
                           State_init(state_type, state_init),
                           [cause |-> "seed", rej |-> FALSE], ClosureFuel)
       IN  /\ phase' = IF r.err = "none" THEN "loop" ELSE r.err
           /\ curr' = IF r.err = "none" THEN r.threads ELSE curr
           /\ calls' = r.calls
           /\ tainted' = r.tainted
    /\ next' = << >>
    /\ states' = << >>
    /\ word' = initial_word
    /\ i' = 0
    /\ events' = << >>
    /\ UNCHANGED <<macro_vars, first, prog, state_init, state_type, input, searcher, eof_curr, eof_base, ret, ncalls>>
    /\ trace' = Append(trace, Snapshot')

\* next_program_state that carries no token
next_program_state_no_token(th, idx, tok_i) ==
    [instruction_ptr |-> th.pc + 1, token_index |-> idx, token |-> None]

\* next_program_state with the index of the iteration before
next_program_state_stale(th, idx, tok_i) ==
    [instruction_ptr |-> th.pc + 1, token_index |-> i, token |-> Some(tok_i)]

\* next_program_state of the loop body
next_program_state(th, idx, tok_i) ==
    [instruction_ptr |-> th.pc + 1, token_index |-> idx, token |-> Some(tok_i)]

\* boundary_program_state with the index after the current token
boundary_program_state_current(th, idx, tok_i) ==
    [instruction_ptr |-> th.pc + 1, token_index |-> idx, token |-> Some(tok_i)]

\* the ProgramState a successful WordBoundary admits its successor with, in the loop
boundary_program_state(th, idx, tok_i) ==
    [instruction_ptr |-> th.pc + 1, token_index |-> i, token |-> Some(tok_i)]

\* is_word_boundary that sees only the start of a word
is_word_boundary_rising(new_word, old_word) == new_word /\ ~old_word

\* new_word ^ word
is_word_boundary(new_word, old_word) == new_word # old_word

\* what a stage has built so far: the list it admits into, the results, the log
Stage(list, sts, evs) == [next |-> list, states |-> sts, events |-> evs]

\* one thread's line of the log
Event(th, op, admitted, ps) ==
    [pc |-> th.pc, state |-> th.state, op |-> op, admitted |-> admitted, ps |-> ps]

\* the admission of a drained thread's successor, logged
admit(acc, th, op, ps) ==
    [acc EXCEPT !.next = add_thread(@, ps, th.state, [cause |-> op, rej |-> FALSE],
                                    ClosureFuel),
                !.events = Append(@, Event(th, op, TRUE, Some(ps)))]

\* the thread is dropped, logged
drop(acc, th, op) == [acc EXCEPT !.events = Append(@, Event(th, op, FALSE, None))]

\* the body of the loop over curr, for one thread
step_thread(acc, th, idx, tok_i, word_boundary) ==
    IF acc.next.err # "none" THEN acc
    ELSE
      LET instr == prog[th.pc + 1]
          nps == next_program_state(th, idx, tok_i)
      IN
      CASE instr.op = "Token" ->
             IF tok_i = instr.tok THEN admit(acc, th, "Token", nps)
             ELSE drop(acc, th, "Token")
        [] instr.op = "Set" ->
             IF TokenSet_contains(instr.set, tok_i) THEN admit(acc, th, "Set", nps)
             ELSE drop(acc, th, "Set")
        [] instr.op = "Map" ->
             admit(acc, th, "Map", optional_with_ip(nps, TokenMap_get(instr.map, tok_i)))
        [] instr.op = "Any" ->
             admit(acc, th, "Any", nps)
        [] instr.op = "WordBoundary" ->
             IF word_boundary
             THEN admit(acc, th, "WordBoundary", boundary_program_state(th, idx, tok_i))
             ELSE drop(acc, th, "WordBoundary")
        [] instr.op = "Match" ->
             [acc EXCEPT !.states = Append(@, th.state),
                         !.events = Append(@, Event(th, "Match", FALSE, None))]
        [] OTHER ->
             [acc EXCEPT !.next.err = "unreachable"]

\* for th in &mut curr { ... }, from the k-th thread on
RECURSIVE step_threads(_, _, _, _, _, _)
step_threads(acc, list, k, idx, tok_i, word_boundary) ==
    IF k > Len(list) THEN acc
    ELSE step_threads(step_thread(acc, list[k], idx, tok_i, word_boundary),
                      list, k + 1, idx, tok_i, word_boundary)

\* one iteration of the while loop: a token is taken and curr is stepped into next
exec_token ==
    /\ phase = "loop"
    /\ LET n == Searcher_next(searcher) IN
       /\ n.tok.some
       /\ LET tok_i == n.tok.v
              new_word == is_word(tok_i)
              word_boundary == is_word_boundary(new_word, word)
              r == step_threads(Stage(ThreadList_new, states, << >>), curr, 1,
                                n.idx, tok_i, word_boundary)
              ok == r.next.err = "none"
          IN  /\ searcher' = n.searcher
              /\ ret' = [idx |-> n.idx, tok |-> n.tok]
              /\ word' = new_word
              /\ phase' = IF ok THEN "loop" ELSE r.next.err
              \* mem::swap(&mut curr, &mut next): curr was drained
              /\ curr' = IF ok THEN r.next.threads ELSE curr
              /\ next' = IF ok THEN << >> ELSE next
              /\ states' = IF ok THEN r.states ELSE states
              /\ i' = IF ok THEN n.idx ELSE i
              /\ calls' = r.next.calls
              /\ tainted' = r.next.tainted
              /\ events' = r.events
    /\ ncalls' = ncalls + 1
    /\ UNCHANGED <<macro_vars, first, prog, state_init, state_type, input, eof_curr, eof_base>>
    /\ trace' = Append(trace, Snapshot')

\* the ProgramState a pending WordBoundary admits its successor with, after the loop
eof_program_state(th) ==
    [instruction_ptr |-> th.pc + 1, token_index |-> i, token |-> None]

\* the body of the first loop after the input, for one thread
sweep_thread(acc, th) ==
    IF acc.next.err # "none" THEN acc
    ELSE
      LET instr == prog[th.pc + 1] IN
      CASE instr.op = "WordBoundary" ->
             IF word THEN admit(acc, th, "WordBoundary", eof_program_state(th))
             ELSE drop(acc, th, "WordBoundary")
        [] instr.op = "Match" ->
             [acc EXCEPT !.states = Append(@, th.state),
                         !.events = Append(@, Event(th, "Match", FALSE, None))]
        [] OTHER -> drop(acc, th, instr.op)

\* for th in &mut curr { ... } after the loop, from the k-th thread on
RECURSIVE sweep_threads(_, _, _)
sweep_threads(acc, list, k) ==
    IF k > Len(list) THEN acc
    ELSE sweep_threads(sweep_thread(acc, list[k]), list, k + 1)

\* the searcher is exhausted: the loop ends, pending word boundaries are resolved
exec_sweep_curr ==
    /\ phase = "loop"
    /\ LET n == Searcher_next(searcher) IN
       /\ ~n.tok.some
       /\ searcher' = n.searcher
       /\ ret' = [idx |-> n.idx, tok |-> n.tok]
    /\ ncalls' = ncalls + 1
    /\ LET r == sweep_threads(Stage(ThreadList_new, states, << >>), curr, 1)
           ok == r.next.err = "none"
       IN  /\ phase' = IF ok THEN "sweep" ELSE r.next.err
           /\ curr' = IF ok THEN << >> ELSE curr
           /\ next' = IF ok THEN r.next.threads ELSE next
           /\ states' = IF ok THEN r.states ELSE states
           /\ calls' = r.next.calls
           /\ tainted' = r.next.tainted
           /\ events' = r.events
    /\ eof_curr' = curr
    /\ eof_base' = Len(states)
    /\ UNCHANGED <<macro_vars, first, prog, state_init, state_type, input, word, i>>
    /\ trace' = Append(trace, Snapshot')

\* the last loop recording no thread
match_states_none(list, k) == << >>

\* the states of the threads of list at Match, in order
RECURSIVE match_states(_, _)
match_states(list, k) ==
    IF k > Len(list) THEN << >>
    ELSE (IF prog[list[k].pc + 1].op = "Match" THEN <<list[k].state>> ELSE << >>)
         \o match_states(list, k + 1)

\* the last loop, over next, and the return of states
exec_sweep_next ==
    /\ phase = "sweep"
    /\ states' = states \o match_states(next, 1)
    /\ next' = << >>
    /\ phase' = "done"
    /\ calls' = << >>
    /\ tainted' = FALSE
    /\ events' = << >>
    /\ UNCHANGED <<macro_vars, first, prog, state_init, state_type, input, searcher, curr, word, i, eof_curr, eof_base,
                   ret, ncalls>>
    /\ trace' = Append(trace, Snapshot')

Next ==
    \/ exec_seed
    \/ exec_token
    \/ exec_sweep_curr
    \/ exec_sweep_next

Spec == Init /\ [][Next]_vars

\* exec never waits: the loop takes its next step whenever it has one
SpecFair == Spec /\ WF_vars(Next)

\* ------------------------------------------------- exec called twice

\* exec has returned and is called again on the same program and input: the
\* searcher is made anew, the locals of the call before are dead until
\* exec_seed initialises them
exec_again ==
    /\ phase = "done"
    /\ ~first.some
    /\ first' = Some([trace |-> trace, states |-> states, prog |-> prog,
                      state_init |-> state_init])
    /\ trace' = << >>
    /\ phase' = "start"
    /\ searcher' = IF searcher.kind = "str" THEN StrSearcher_new(input)
                   ELSE IterSearcher_new(input)
    /\ ret' = [idx |-> 0, tok |-> None]
    /\ ncalls' = 0
    /\ UNCHANGED <<macro_vars, prog, state_init, state_type, input, curr, next, states, word, i,
                   calls, events, tainted, eof_curr, eof_base>>

NextTwice ==
    \/ Next
    \/ exec_again

SpecTwice == Init /\ [][NextTwice]_vars

\* ------------------------------------------------------------------ program_macro.rs

\* an argument expression of an instruction: a literal or a label variable
Lit(n) == [kind |-> "lit", n |-> n, name |-> ""]

Var(name) == [kind |-> "var", n |-> 0, name |-> name]

\* one repetition of the macro's pattern: $(:$label)? $instr $(($args))?
Item(label, op, tok, arg) == [label |-> label, op |-> op, tok |-> tok, arg |-> arg]

\* the value of an expression where the label variables bound are env
eval(expr, env) ==
    IF expr.kind = "lit" THEN expr.n
    ELSE (CHOOSE p \in env : p[1] = expr.name)[2]

\* instruction!: the Instr an item expands to
instruction(item, env) ==
    CASE item.op = "Map" -> Map({<<item.tok, eval(item.arg, env)>>})
      [] item.op = "Set" -> Set({item.tok})
      [] item.op = "Any" -> Any
      [] item.op = "WordBoundary" -> WordBoundary
      [] item.op = "Reject" -> Reject
      [] item.op = "Match" -> Match
      [] item.op = "Token" -> Token(item.tok)
      [] item.op = "Split" -> Split(eval(item.arg, env))
      [] item.op = "JSplit" -> JSplit(eval(item.arg, env))
      [] item.op = "Jump" -> Jump(eval(item.arg, env))
      [] item.op = "UpdateState" -> UpdateState(eval(item.arg, env))

\* let $label = count placed after count += 1
label_value_after_increment(c) == c + 1

\* let $label = count: the value a label is bound to when the counter is c
label_value(c) == c

\* let $label = ...: a later let of the same name shadows the earlier one
let_bind(env, name, value) == {p \in env : p[1] # name} \cup {<<name, value>>}

\* the invocation of program! in program_macro.rs's test
test_macro_source ==
    [items |->
       <<Item(Some("l0"), "JSplit", "", Var("l1")),
         Item(None, "Any", "", Lit(0)),
         Item(None, "Jump", "", Var("l0")),
         Item(Some("l1"), "UpdateState", "", Lit(0)),
         Item(None, "UpdateState", "", Lit(2)),
         Item(None, "Token", "a", Lit(0)),
         Item(None, "Split", "", Var("l2")),
         Item(None, "Token", "b", Lit(0)),
         Item(Some("l2"), "UpdateState", "", Lit(3)),
         Item(None, "UpdateState", "", Lit(4)),
         Item(None, "Split", "", Var("l3")),
         Item(None, "Token", "b", Lit(0)),
         Item(Some("l3"), "Token", "c", Lit(0)),
         Item(None, "UpdateState", "", Lit(5)),
         Item(None, "WordBoundary", "", Lit(0)),
         Item(None, "UpdateState", "", Lit(1)),
         Item(None, "Match", "", Lit(0))>>,
     init |-> 6]

\* the items the generated invocations are made of
ItemAlphabet ==
    {Item(l, b[1], b[2], b[3]) :
        l \in {None, Some("l0"), Some("l1")},
        b \in {<<"Match", "", Lit(0)>>, <<"Any", "", Lit(0)>>,
               <<"Jump", "", Var("l0")>>, <<"Jump", "", Var("l1")>>,
               <<"Split", "", Var("l1")>>, <<"JSplit", "", Lit(0)>>,
               <<"Map", "a", Var("l0")>>, <<"UpdateState", "", Lit(0)>>}}

\* the label variables an item sequence refers to, and those it binds
referred(items) ==
    {items[k].arg.name : k \in {j \in 1..Len(items) : items[j].arg.kind = "var"}}

bound(items) ==
    {items[k].label.v : k \in {j \in 1..Len(items) : items[j].label.some}}

\* the invocations that compile: every variable referred to is bound
MacroSources ==
    {[items |-> its, init |-> 1] :
        its \in {x \in UNION {[1..n -> ItemAlphabet] : n \in 0..MaxProgLen} :
                    referred(x) \subseteq bound(x)}}
    \cup {test_macro_source}

\* before the expansion of program! runs
MacroInit ==
    \E src \in MacroSources :
        /\ source = src
        /\ labels = {}
        /\ count = 0
        /\ prog = << >>
        /\ state_init = 0
        /\ state_type = "SaveList"
        /\ input = << >>
        /\ searcher = StrSearcher_new(<< >>)
        /\ phase = "macro"
        /\ curr = << >>
        /\ next = << >>
        /\ states = << >>
        /\ word = FALSE
        /\ i = 0
        /\ calls = << >>
        /\ events = << >>
        /\ tainted = FALSE
        /\ eof_curr = << >>
        /\ eof_base = 0
        /\ ret = [idx |-> 0, tok |-> None]
        /\ ncalls = 0
        /\ trace = << >>
        /\ first = None

\* what no step of the expansion touches
macro_frame ==
    UNCHANGED <<input, searcher, state_type, curr, next, states, word, i, calls, events,
                tainted, eof_curr, eof_base, ret, ncalls, trace, first>>

\* one repetition of the first loop: $(let $label = count;)? count += 1;
macro_count ==
    /\ phase = "macro"
    /\ count < Len(source.items)
    /\ LET item == source.items[count + 1]
       IN  labels' = IF item.label.some
                     THEN let_bind(labels, item.label.v, label_value(count))
                     ELSE labels
    /\ count' = count + 1
    /\ UNCHANGED <<source, prog, state_init, phase>>
    /\ macro_frame

\* one repetition of the second loop: prog.push(instruction!(...))
macro_push ==
    /\ phase = "macro"
    /\ count = Len(source.items)
    /\ Len(prog) < Len(source.items)
    /\ prog' = Append(prog, instruction(source.items[Len(prog) + 1], labels))
    /\ UNCHANGED <<source, labels, count, state_init, phase>>
    /\ macro_frame

\* Program::new(prog, {$init})
macro_new ==
    /\ phase = "macro"
    /\ count = Len(source.items)
    /\ Len(prog) = Len(source.items)
    /\ state_init' = source.init
    /\ phase' = "built"
    /\ UNCHANGED <<source, labels, count, prog>>
    /\ macro_frame

MacroNext ==
    \/ macro_count
    \/ macro_push
    \/ macro_new

SpecMacro == MacroInit /\ [][MacroNext]_vars

\* ------------------------------------------------- programs over the Concat state

\* the program of state::tests::state_updates
concat_program ==
    <<UpdateState(0), Any, Split(0), UpdateState(0), UpdateState(0), Match>>

\* the generated programs whose updates all carry the one value of type ()
ConcatPrograms ==
    {p \in GenPrograms : \A k \in 1..Len(p) : p[k].op = "UpdateState" => p[k].upd = 0}

\* the runs with the Concat state: its init value () is written 0
ConcatConfigs ==
    {Config(p, 0, inp, "str") : p \in ConcatPrograms, inp \in GenInputs}
    \cup {Config(concat_program, 0, <<"a", "b", "c">>, "str"),
          Config(concat_program, 0, <<"a", "b", "c">>, "iter")}

ConcatInit == \E c \in ConcatConfigs : Start(c, "Concat")

SpecConcat == ConcatInit /\ [][Next]_vars

\* ------------------------------------------------- a searcher driven on its own

\* the inputs of the searchers: every width of len_utf8 occurs
SearcherInputs ==
    UNION {[1..n -> {"a", "cent", "euro", "hwair"}] : n \in 0..MaxInputLen}

\* into_searcher on a &str or on a slice, no program run on it
SearcherInit ==
    \E inp \in SearcherInputs : \E k \in {"str", "iter"} :
        /\ input = inp
        /\ searcher = IF k = "str" THEN StrSearcher_new(inp) ELSE IterSearcher_new(inp)
        /\ prog = << >>
        /\ state_init = 0
        /\ state_type = "SaveList"
        /\ phase = "searcher"
        /\ curr = << >>
        /\ next = << >>
        /\ states = << >>
        /\ word = initial_word
        /\ i = 0
        /\ calls = << >>
        /\ events = << >>
        /\ tainted = FALSE
        /\ eof_curr = << >>
        /\ eof_base = 0
        /\ ret = [idx |-> 0, tok |-> None]
        /\ ncalls = 0
        /\ trace = << >>
        /\ first = None
        /\ NoMacro

\* one call of next on a searcher n: what it returned is kept in ret
call_next(n) ==
    /\ ncalls < Len(input) + 1 + MaxExtraCalls
    /\ searcher' = n.searcher
    /\ ret' = [idx |-> n.idx, tok |-> n.tok]
    /\ ncalls' = ncalls + 1
    /\ UNCHANGED <<macro_vars, first, prog, state_init, state_type, input, phase, curr, next, states, word, i,
                   calls, events, tainted, eof_curr, eof_base, trace>>

\* <StrSearcher as Searcher>::next
str_next == searcher.kind = "str" /\ call_next(StrSearcher_next(searcher))

\* <IterSearcher as Searcher>::next
iter_next == searcher.kind = "iter" /\ call_next(IterSearcher_next(searcher))

SearcherNext ==
    \/ str_next
    \/ iter_next

SpecSearcher == SearcherInit /\ [][SearcherNext]_vars

\* ------------------------------------------------------------------ claims

\* the number of tokens the searcher has handed out
pos == Len(input) - Len(searcher.iter)

\* the k-th token of the input is a word token; a missing token is not
IsWordAt(k) == k \in 1..Len(input) /\ input[k] \notin WhiteSpace

\* the index width of a token for the searcher of this run
TokenWidth(t) == IF searcher.kind = "str" THEN len_utf8(t) ELSE 1

\* a SaveList whose slots are all set, from their values
Saved(s) == [k \in 1..Len(s) |-> Some(s[k])]

\* the instructions add_thread resolves and never stores
ZeroWidthOps == {"Split", "JSplit", "Jump", "UpdateState", "Reject"}

\* the instructions that take a token
ConsumingOps == {"Token", "Set", "Map", "Any"}

\* C1 (as claimed): a thread whose update returned false is dropped: no thread is
\* pushed on the path after a failed update, and the program whose only path
\* to Match updates slot 2 of a 2-slot SaveList returns no match.
C1_RejectedUpdateDrops ==
    /\ ~tainted
    /\ (phase = "done" /\ prog = bad_slot_program) => states = << >>

\* C2 (as claimed): WordBoundary consumes nothing, so [WordBoundary, Token(a),
\* Match] returns exactly one result on "a" and none on "xa".
C2_BoundaryConsumesNothing ==
    (phase = "done" /\ prog = boundary_token_program) =>
        /\ input = <<"a">> => Len(states) = 1
        /\ input = <<"x", "a">> => states = << >>

DrainedFirst == IF phase = "sweep" THEN next ELSE curr

NoDuplicates(list) ==
    \A j, k \in 1..Len(list) : j # k => list[j] # list[k]

\* C4 (as claimed): at every input position the thread lists hold no two
\* threads with the same pc and equal states.
C4_NoDuplicateThreads ==
    phase \in {"loop", "sweep"} => NoDuplicates(curr) /\ NoDuplicates(next)

\* C5: no thread stored in curr or next points to Split, JSplit, Jump,
\* UpdateState or Reject, and the unreachable!() arm is never executed.
C5_NoZeroWidthThreads ==
    /\ \A k \in 1..Len(curr) : prog[curr[k].pc + 1].op \notin ZeroWidthOps
    /\ \A k \in 1..Len(next) : prog[next[k].pc + 1].op \notin ZeroWidthOps
    /\ phase # "unreachable"

C5_Witness ==
    /\ phase = "loop"
    /\ pos >= 1
    /\ calls # << >>
    /\ Len(curr) >= 2
    /\ \E k \in 1..Len(curr) : curr[k].pc >= 1 /\ prog[curr[k].pc].op = "UpdateState"

\* the results the threads of list lead to without taking a token, in the
\* order of the list: a thread at Match gives its state, a thread at a
\* WordBoundary that holds at the end of the input gives the Match states of
\* the closure of its successor
RECURSIVE priority_results(_, _)
priority_results(list, k) ==
    IF k > Len(list) THEN << >>
    ELSE LET th == list[k]
             op == prog[th.pc + 1].op
             mine ==
               CASE op = "Match" -> <<th.state>>
                 [] op = "WordBoundary" /\ word ->
                      match_states(add_thread(ThreadList_new, eof_program_state(th), th.state,
                                              [cause |-> "WordBoundary", rej |-> FALSE],
                                              ClosureFuel).threads, 1)
                 [] OTHER -> << >>
         IN  mine \o priority_results(list, k + 1)

\* C6 (as claimed): the results recorded once the input has run out follow the
\* order of the threads of the list they come from.
C6_ResultsFollowPriority ==
    phase = "done" =>
        SubSeq(states, eof_base + 1, Len(states)) = priority_results(eof_curr, 1)

\* C7: the program for (ab?)(b?c)\b returns (3,6,3,5,5,6) then (3,6,3,4,4,6),
\* on "ducabc" and on "ducabc ".
C7_TestProgramResults ==
    (phase = "done" /\ prog = test_program) =>
        states = <<Saved(<<3, 6, 3, 5, 5, 6>>), Saved(<<3, 6, 3, 4, 4, 6>>)>>

C7_Witness ==
    /\ phase = "done"
    /\ prog = test_program
    /\ input = ducabc \o <<" ">>
    /\ Len(states) = 2

C9_UpdateIndexAfterToken ==
    \A k \in 1..Len(calls) :
        /\ calls[k].cause \in ConsumingOps => calls[k].token_index = searcher.next_index
        /\ calls[k].cause = "seed" => calls[k].token_index = 0

C9_Witness ==
    /\ pos >= 2
    /\ \E k \in 1..Len(calls) :
          /\ calls[k].cause = "Token"
          /\ calls[k].token_index = pos

\* C10 (as claimed): the successor of a WordBoundary that holds in the loop (its
\* context carries the current token) is admitted with the index after the
\* current token.
C10_BoundaryIndexAfterToken ==
    \A k \in 1..Len(calls) :
        (calls[k].cause = "WordBoundary" /\ calls[k].token.some) =>
            calls[k].token_index = searcher.next_index

\* C10 (amended): it is admitted with i, the index after the token before, which
\* is the index before the current token.
C10_BoundaryIndexBeforeToken ==
    \A k \in 1..Len(calls) :
        (calls[k].cause = "WordBoundary" /\ calls[k].token.some) =>
            calls[k].token_index = searcher.next_index - TokenWidth(input[pos])

C10_Witness ==
    /\ phase = "loop"
    /\ \E k \in 1..Len(calls) :
          /\ calls[k].cause = "WordBoundary"
          /\ calls[k].token_index > 0

\* ---- C11 ----

\* prog is UpdateState(0), a straight-line body of consuming instructions and
\* WordBoundary, UpdateState(1), Match
IsBracketed ==
    /\ Len(prog) >= 3
    /\ prog[1] = UpdateState(0)
    /\ prog[Len(prog) - 1] = UpdateState(1)
    /\ prog[Len(prog)] = Match
    /\ \A k \in 2..(Len(prog) - 2) : prog[k].op \in ConsumingOps \cup {"WordBoundary"}

\* the number of consuming instructions between the two updates
BodyTokens == Cardinality({k \in 2..(Len(prog) - 2) : prog[k].op \in ConsumingOps})

\* C11: on uniform input every result of a bracketed program has slots 0 and 1
\* set to s and e with s <= e <= input length and e - s the number of tokens
\* consumed by the consuming instructions of the body, WordBoundary in the
\* body included
C11_IndexConservation ==
    (searcher.kind = "iter" /\ IsBracketed) =>
        \A k \in 1..Len(states) :
            /\ states[k][1].some /\ states[k][2].some
            /\ states[k][1].v <= states[k][2].v
            /\ states[k][2].v <= Len(input)
            /\ states[k][2].v - states[k][1].v = BodyTokens

\* ---- C12 ----

\* the index just after the k-th token of the input
RECURSIVE PrefixWidth(_)
PrefixWidth(k) == IF k = 0 THEN 0 ELSE PrefixWidth(k - 1) + TokenWidth(input[k])

\* the codepoint boundaries of the input
Boundaries == {PrefixWidth(k) : k \in 0..Len(input)}

\* the instruction pointers control can go to from pc
Successors(pc) ==
    LET instr == prog[pc + 1]
    IN  CASE instr.op \in {"Split", "JSplit"} -> {pc + 1, instr.ip}
          [] instr.op = "Jump" -> {instr.ip}
          [] instr.op = "Map" -> {pc + 1} \cup {m[2] : m \in instr.map}
          [] instr.op \in {"Reject", "Match"} -> {}
          [] OTHER -> {pc + 1}

\* the instruction pointers reached from the set S without executing
\* UpdateState(slot)
RECURSIVE ReachAvoiding(_, _, _)
ReachAvoiding(S, slot, fuel) ==
    LET open == {q \in S : q < Len(prog) /\ prog[q + 1] # UpdateState(slot)}
        T == S \cup UNION {Successors(q) : q \in open}
    IN  IF fuel = 0 \/ T = S THEN S ELSE ReachAvoiding(T, slot, fuel - 1)

\* every path from an UpdateState(2k) to Match executes UpdateState(2k+1)
CaptureClosed ==
    \A p \in 0..(Len(prog) - 1) : \A k \in 0..(state_init \div 2) :
        prog[p + 1] = UpdateState(2 * k) =>
            \A q \in ReachAvoiding({p + 1}, 2 * k + 1, Len(prog)) :
                q < Len(prog) => prog[q + 1].op # "Match"

\* every set slot of every result is a codepoint boundary of the input
SlotsAreBoundaries ==
    \A r \in 1..Len(states) : \A k \in 1..Len(states[r]) :
        states[r][k].some => states[r][k].v \in Boundaries

\* every pair of slots (2k, 2k+1) of every result that are both set has
\* start <= end
PairsAreOrdered ==
    \A r \in 1..Len(states) : \A k \in 0..(state_init \div 2) :
        (2 * k + 2 <= Len(states[r]) /\ states[r][2 * k + 1].some
                                     /\ states[r][2 * k + 2].some)
            => states[r][2 * k + 1].v <= states[r][2 * k + 2].v

\* C12 as stated: on text input every set slot of every result is 0 or a
\* prefix sum of the token widths, and every pair (2k, 2k+1) of set slots has
\* start <= end, for every program
C12_SlotsAreOrderedBoundaries ==
    searcher.kind = "str" => (SlotsAreBoundaries /\ PairsAreOrdered)

\* C12 amended: the slots are boundaries for every program; start <= end for
\* the programs where every path from UpdateState(2k) to Match executes
\* UpdateState(2k+1)
C12_ClosedCapturesAreOrdered ==
    searcher.kind = "str" =>
        (SlotsAreBoundaries /\ (CaptureClosed => PairsAreOrdered))

\* a closed capture over a token wider than one byte has been returned
C12_Witness ==
    /\ phase = "done" /\ searcher.kind = "str" /\ CaptureClosed
    /\ \E r \in 1..Len(states) :
           /\ Len(states[r]) >= 4
           /\ states[r][3].some /\ states[r][4].some
           /\ states[r][4].v - states[r][3].v > 1

\* ---- C13 ----

\* the result of (.)(.)(.) that captures the tokens j, j+1, j+2
dots_result(j) ==
    Saved(<<PrefixWidth(j - 1), PrefixWidth(j + 2),
            PrefixWidth(j - 1), PrefixWidth(j),
            PrefixWidth(j), PrefixWidth(j + 1),
            PrefixWidth(j + 1), PrefixWidth(j + 2)>>)

\* the number of results of (.)(.)(.) on the input
dots_count == IF Len(input) >= 2 THEN Len(input) - 2 ELSE 0

\* C13: (.)(.)(.) with 8 slots on n tokens returns max(0, n-2) results in
\* increasing order of start, the j-th capturing tokens j, j+1, j+2 at the
\* cumulative token widths; on the widths 1,2,3,4 these are
\* (0,6|0,1|1,3|3,6) and (1,10|1,3|3,6|6,10), on the uniform sequence the
\* outer spans are (0,3) and (1,4)
C13_ThreeDots ==
    (phase = "done" /\ prog = dots_program /\ state_init = 8) =>
        /\ states = [j \in 1..dots_count |-> dots_result(j)]
        /\ \A j \in 1..(Len(states) - 1) : states[j][1].v < states[j + 1][1].v
        /\ (input = SubSeq(unicode_haystack, 1, 4) /\ searcher.kind = "str") =>
               states = <<Saved(<<0, 6, 0, 1, 1, 3, 3, 6>>),
                          Saved(<<1, 10, 1, 3, 3, 6, 6, 10>>)>>
        /\ (input = SubSeq(unicode_haystack, 1, 4) /\ searcher.kind = "iter") =>
               /\ Len(states) = 2
               /\ <<states[1][1], states[1][2]>> = <<Some(0), Some(3)>>
               /\ <<states[2][1], states[2][2]>> = <<Some(1), Some(4)>>

\* (.)(.)(.) has returned its two results on the text of widths 1,2,3,4
C13_Witness ==
    /\ phase = "done" /\ prog = dots_program /\ state_init = 8
    /\ input = SubSeq(unicode_haystack, 1, 4) /\ searcher.kind = "str"
    /\ Len(states) = 2

\* ---- C14 ----

\* what the k-th call of next returns on the input
expected_return(k) ==
    IF k <= Len(input)
    THEN [idx |-> PrefixWidth(k), tok |-> Some(input[k])]
    ELSE [idx |-> PrefixWidth(Len(input)), tok |-> None]

\* every call so far returned what the contract says, and the searcher's
\* index is the index returned
ReturnsFollowContract ==
    /\ ncalls >= 1 => ret = expected_return(ncalls)
    /\ searcher.next_index = ret.idx

\* a call that returns a token returns a larger index than the call before,
\* a call that returns None returns the same index
IndexAdvances ==
    ncalls' = ncalls + 1 =>
        IF ret'.tok.some THEN ret'.idx > ret.idx ELSE ret'.idx = ret.idx

\* C14: the k-th call of next returns (idx_k, Some(token k)) for k <= n with
\* idx_k the index just after token k (UTF-8 widths for text, 1 for
\* sequences), every later call returns (idx_n, None); the indices strictly
\* increase while tokens are returned
C14_SearcherContract == []ReturnsFollowContract /\ [][IndexAdvances]_vars

\* a text searcher over a token wider than one byte has been called twice
\* after it ran out
C14_Witness ==
    /\ phase = "searcher" /\ searcher.kind = "str"
    /\ Len(input) >= 1 /\ PrefixWidth(Len(input)) > Len(input)
    /\ ncalls = Len(input) + 2
    /\ ~ret.tok.some

\* ---- C15 ----

\* C15: curr and next never hold more threads than the program has
\* instructions
C15_ThreadsBoundedByProgram ==
    /\ Len(curr) <= Len(prog)
    /\ Len(next) <= Len(prog)

\* ---- C16 ----

\* the ways exec can fail to return: an index past the program (a panic), an
\* admission that recurses without end, the unreachable!() arm
ErrorPhases == {"index", "overflow", "unreachable"}

\* the instructions add_thread follows without listing a thread
ClosureOps == {"Split", "JSplit", "Jump", "UpdateState"}

\* the instruction pointers add_thread goes through from the set S
RECURSIVE ClosureReach(_, _)
ClosureReach(S, fuel) ==
    LET open == {q \in S : q < Len(prog) /\ prog[q + 1].op \in ClosureOps}
        T == S \cup UNION {Successors(q) : q \in open}
    IN  IF fuel = 0 \/ T = S THEN S ELSE ClosureReach(T, fuel - 1)

\* some Split, JSplit, Jump or UpdateState leads back to itself through
\* instructions of these kinds only
HasZeroWidthCycle ==
    \E p \in 0..(Len(prog) - 1) :
        /\ prog[p + 1].op \in ClosureOps
        /\ p \in ClosureReach(Successors(p), Len(prog))

\* every instruction pointer the program can produce, the 0 exec starts at
\* included, is in range
PointersInRange ==
    /\ 0 < Len(prog)
    /\ \A p \in 0..(Len(prog) - 1) : Successors(p) \subseteq 0..(Len(prog) - 1)

WellFormed == PointersInRange /\ ~HasZeroWidthCycle

\* some path of the program from pc 0 reaches a Match
MatchReachable ==
    \E q \in ReachAvoiding({0}, -1, Len(prog)) : q < Len(prog) /\ prog[q + 1].op = "Match"

\* C16: for a program with no zero-width cycle and all pointers in range,
\* every admission terminates and no error is raised, exec eventually
\* returns, and the result is empty when no path reaches Match
C16_WellFormedTerminates ==
    /\ [](WellFormed => phase \notin ErrorPhases)
    /\ WellFormed => <>(phase = "done")
    /\ []((WellFormed /\ phase = "done" /\ ~MatchReachable) => states = << >>)

\* exec has returned the empty vector for a well-formed program with forks
\* or updates that cannot reach Match, on a non-empty input
C16_Witness ==
    /\ phase = "done" /\ WellFormed /\ ~MatchReachable
    /\ input # << >> /\ states = << >>
    /\ \E p \in 1..Len(prog) : prog[p].op \in ClosureOps

\* ---- C17 ----

\* the threads of the list that are at pc, in list order
threads_at(list, pc) == SelectSeq(list, LAMBDA th : th.pc = pc)

\* the threads at the Match of greedy_lazy_program before the token "a": the
\* greedy alternative with slots 2, 3 and the lazy one with slots 4, 5
greedy_lazy_at_match ==
    <<Thread_new(12, <<None, None, Some(0), Some(0), None, None>>),
      Thread_new(12, <<None, None, None, None, Some(0), Some(0)>>)>>

\* the results of greedy_lazy_program on "a"
greedy_lazy_results ==
    <<<<None, None, Some(0), Some(0), None, None>>,
      <<None, None, None, None, Some(0), Some(0)>>,
      <<None, None, Some(0), Some(1), None, None>>,
      <<None, None, None, None, Some(0), Some(1)>>>>

\* C17: threads admitted at the same pc with different states are all kept,
\* in admission order, and the states of all of them that are at Match are
\* in the result
C17_SamePcDifferentStateKept ==
    /\ phase = "sweep" =>
           SubSeq(states, eof_base + 1, Len(states)) = match_states(eof_curr, 1)
    /\ (prog = greedy_lazy_program /\ state_init = 6 /\ input = <<"a">>) =>
           /\ (phase = "loop" /\ pos = 0) => threads_at(curr, 12) = greedy_lazy_at_match
           /\ phase = "done" => states = greedy_lazy_results

\* two threads with different states were at the same Match when the input
\* ran out, and exec has returned
C17_Witness ==
    /\ phase = "done"
    /\ \E a, b \in 1..Len(eof_curr) :
           /\ a < b
           /\ eof_curr[a].pc = eof_curr[b].pc
           /\ prog[eof_curr[a].pc + 1].op = "Match"
           /\ eof_curr[a].state # eof_curr[b].state
    /\ Len(states) >= 4

\* ---- C18 ----

\* the list after admitting a thread at pc, with a fresh state, into an empty
\* list
admitted_at(pc) ==
    add_thread(ThreadList_new,
               [instruction_ptr |-> pc, token_index |-> 0, token |-> None],
               SaveList_init(state_init), [cause |-> "seed", rej |-> FALSE], ClosureFuel)

\* the instruction pointers at which an admission runs to its end
Admissible == {p \in 0..(Len(prog) - 1) : admitted_at(p).err = "none"}

\* C18: admission at Split(a) lists the threads of the closure of pc+1 and
\* then those of the closure of a, at JSplit(a) those of a and then those of
\* pc+1, at Jump(a) exactly those of a, at Reject none; the first curr of
\* exec is the closure of pc 0
C18_AdmissionOrder ==
    /\ \A p \in Admissible :
           LET instr == prog[p + 1]
               got == admitted_at(p).threads
           IN  /\ instr.op = "Split" =>
                      got = admitted_at(p + 1).threads \o admitted_at(instr.ip).threads
               /\ instr.op = "JSplit" =>
                      got = admitted_at(instr.ip).threads \o admitted_at(p + 1).threads
               /\ instr.op = "Jump" => got = admitted_at(instr.ip).threads
               /\ instr.op = "Reject" => got = << >>
    /\ (phase = "loop" /\ pos = 0) => curr = admitted_at(0).threads

\* exec has admitted its first thread at a JSplit, and the program has a
\* Split too, each with two closures that differ and are not empty
C18_Witness ==
    /\ phase = "loop" /\ pos = 0
    /\ \E p, q \in Admissible :
           /\ p = 0
           /\ prog[p + 1].op = "JSplit" /\ prog[q + 1].op = "Split"
           /\ \A r \in {p, q} :
                  /\ admitted_at(r + 1).threads # << >>
                  /\ admitted_at(prog[r + 1].ip).threads # << >>
                  /\ admitted_at(r + 1).threads # admitted_at(prog[r + 1].ip).threads

\* ---- C19 ----

\* the event is the drain of a thread at a Map whose map has the token
MapHit(e) == \E m \in prog[e.pc + 1].map : m[1] = input[pos]

\* the event is the drain of a thread at a Map that falls through into a
\* Reject
FallsIntoReject(e) ==
    /\ e.op = "Map" /\ ~MapHit(e)
    /\ e.pc + 1 < Len(prog) /\ prog[e.pc + 2].op = "Reject"

\* C19: in a step on a token a thread at Map(M) is always admitted into
\* next, at M[tok] when M has the token and at pc+1 otherwise, with
\* token_index the index after the token; a Reject at pc+1 kills the thread
\* that falls through
C19_MapAlwaysConsumes ==
    /\ \A k \in 1..Len(events) :
           (events[k].op = "Map" /\ phase # "sweep") =>
               /\ events[k].admitted
               /\ events[k].ps.v.token_index = ret.idx
               /\ events[k].ps.v.token = Some(input[pos])
               /\ IF MapHit(events[k])
                  THEN <<input[pos], events[k].ps.v.instruction_ptr>>
                           \in prog[events[k].pc + 1].map
                  ELSE events[k].ps.v.instruction_ptr = events[k].pc + 1
    /\ (phase = "loop" /\ events # << >>
            /\ \A k \in 1..Len(events) : FallsIntoReject(events[k]))
           => curr = << >>
    /\ (prog = map_program /\ state_init = 1 /\ phase = "done") =>
           states = IF input \in {<<"a">>, <<"b">>} THEN <<Saved(<<1>>)>> ELSE << >>

\* a step has drained a thread at a Map that had the token and one at a Map
\* that fell through into a Reject
C19_Witness ==
    /\ phase = "loop"
    /\ \E k \in 1..Len(events) : events[k].op = "Map" /\ MapHit(events[k])
    /\ \E k \in 1..Len(events) : FallsIntoReject(events[k])

\* ---- C20 ----

\* the SaveLists held by the threads and the results
held_states ==
    {curr[k].state : k \in 1..Len(curr)} \cup {next[k].state : k \in 1..Len(next)}
        \cup {states[k] : k \in 1..Len(states)}

\* C20: init(n) is n empty slots; update(slot, ctx) with slot < n sets that
\* slot to ctx.token_index, leaves the others and returns true, with
\* slot >= n it returns false and leaves the vector; the length is n in every
\* state
C20_SaveListContract ==
    /\ \A st \in held_states : Len(st) = state_init
    /\ (phase = "loop" /\ pos = 0 /\ calls = << >>) =>
           \A k \in 1..Len(curr) : curr[k].state = [j \in 1..state_init |-> None]
    /\ \A k \in 1..Len(calls) :
           LET c == calls[k] IN
           /\ Len(c.before) = state_init /\ Len(c.after) = state_init
           /\ c.ok <=> c.update < state_init
           /\ c.ok => /\ c.after[c.update + 1] = Some(c.token_index)
                      /\ \A j \in 1..state_init :
                             j # c.update + 1 => c.after[j] = c.before[j]
           /\ ~c.ok => c.after = c.before

\* the admissions of one step have made an update that was stored and kept
\* another set slot, and an update of a slot past the end
C20_Witness ==
    /\ \E k \in 1..Len(calls) :
           /\ calls[k].ok /\ calls[k].token_index > 0
           /\ \E j \in 1..state_init :
                  j # calls[k].update + 1 /\ calls[k].before[j].some
    /\ \E k \in 1..Len(calls) : ~calls[k].ok

\* ---- C21 ----

\* the token an update with the context of the call appends to a Concat
context_char(c) == IF c.token.some THEN c.token.v ELSE "NUL"

\* C21: an UpdateState of the seed closure sees token = None, one of the
\* closure after consuming t sees Some(t), instruction_ptr is the pc of the
\* UpdateState itself; [UpdateState, Any, Split(0), UpdateState, UpdateState,
\* Match] with the Concat state returns NUL+"aa", NUL+"abb", NUL+"abcc" on
\* "abc", in this order
C21_ContextToken ==
    /\ \A k \in 1..Len(calls) :
           LET c == calls[k] IN
           /\ c.cause = "seed" => c.token = None
           /\ c.cause \in ConsumingOps => c.token = Some(input[pos])
           /\ prog[c.instruction_ptr + 1] = UpdateState(c.update)
           /\ state_type = "Concat" => c.after = Append(c.before, context_char(c))
    /\ (state_type = "Concat" /\ prog = concat_program /\ input = <<"a", "b", "c">>
            /\ phase = "done") =>
           states = <<<<"NUL", "a", "a">>,
                      <<"NUL", "a", "b", "b">>,
                      <<"NUL", "a", "b", "c", "c">>>>

\* exec has returned the three strings of state_updates
C21_Witness ==
    /\ state_type = "Concat" /\ prog = concat_program /\ phase = "done"
    /\ searcher.kind = "str"
    /\ Len(states) = 3

\* ---- C22 ----

\* the second exec has so far gone through the lists and results the first
\* went through, and returns what the first returned
SecondRunRepeatsFirst ==
    first.some =>
        /\ Len(trace) <= Len(first.v.trace)
        /\ trace = SubSeq(first.v.trace, 1, Len(trace))
        /\ phase = "done" => (trace = first.v.trace /\ states = first.v.states)
        /\ prog = first.v.prog /\ state_init = first.v.state_init

\* no step of exec changes the program
ProgramUnchanged == prog' = prog /\ state_init' = state_init

RECURSIVE admitted_threads(_, _)
admitted_threads(evs, k) ==
    IF k > Len(evs) THEN << >>
    ELSE (IF evs[k].admitted
          THEN add_thread(ThreadList_new, evs[k].ps.v, evs[k].state,
                          [cause |-> evs[k].op, rej |-> FALSE], ClosureFuel).threads
          ELSE << >>)
         \o admitted_threads(evs, k + 1)

\* the states the events of a step have appended to the results, in order
RECURSIVE recorded_states(_, _)
recorded_states(evs, k) ==
    IF k > Len(evs) THEN << >>
    ELSE (IF evs[k].op = "Match" THEN <<evs[k].state>> ELSE << >>)
         \o recorded_states(evs, k + 1)

\* a step of the loop on the token tok that ended without an error
IsTokenStep == ncalls' = ncalls + 1 /\ ret'.tok.some /\ phase' = "loop"

\* what the step on the token ret'.tok.v did with the k-th thread of curr
StepRule(k) ==
    LET e == events'[k]
        instr == prog[curr[k].pc + 1]
        tok == ret'.tok.v
        at_next == e.admitted /\ e.ps.v.instruction_ptr = curr[k].pc + 1
                              /\ e.ps.v.token_index = ret'.idx
    IN  /\ e.pc = curr[k].pc /\ e.state = curr[k].state
        /\ instr.op = "Token" => IF tok = instr.tok THEN at_next ELSE ~e.admitted
        /\ instr.op = "Set" => IF tok \in instr.set THEN at_next ELSE ~e.admitted
        /\ instr.op = "Any" => at_next
        /\ instr.op = "Match" => ~e.admitted

StepSemantics ==
    IsTokenStep =>
        /\ Len(events') = Len(curr)
        /\ \A k \in 1..Len(curr) : StepRule(k)
        /\ curr' = admitted_threads(events', 1)
        /\ states' = states \o recorded_states(events', 1)

\* C23: on the token tok a thread at Token(t) is admitted at pc+1 into next
\* iff tok = t, one at Set(S) iff tok is in S, one at Any always; the state of
\* a thread at Match is appended to the results and the thread is admitted
\* nowhere; a thread that fails its test adds nothing to next or the results
C23_StepSemantics == [][StepSemantics]_vars

\* a step has admitted one thread at a Token, dropped another one that
\* failed its test, and recorded a thread at Match
C23_Witness ==
    /\ phase = "loop" /\ ret.tok.some
    /\ \E k \in 1..Len(events) : events[k].op = "Token" /\ events[k].admitted
    /\ \E k \in 1..Len(events) : events[k].op \in {"Token", "Set"} /\ ~events[k].admitted
    /\ \E k \in 1..Len(events) : events[k].op = "Match"
    /\ curr # << >> /\ states # << >>

\* ---- C24 ----

\* the list add_thread makes of list when a thread with the context ps and
\* the state st is admitted at pc
closure_onto(list, pc, ps, st) ==
    add_thread([ThreadList_new EXCEPT !.threads = list],
               [ps EXCEPT !.instruction_ptr = pc], st,
               [cause |-> "seed", rej |-> FALSE], ClosureFuel)

\* the states and contexts threads were admitted with in the last step, and
\* the state and context of the seed
Admissions ==
    {[ps |-> events[k].ps.v, state |-> events[k].state] :
         k \in {j \in 1..Len(events) : events[j].admitted}}
    \cup {[ps |-> seed_program_state, state |-> State_init(state_type, state_init)]}

\* C24: both branches of a Split or JSplit start from the state of the fork,
\* whatever updates the branch admitted first makes, and an admission leaves
\* the threads already in the list as they are
C24_ForkIsolation ==
    \A a \in Admissions : \A p \in 0..(Len(prog) - 1) :
        LET instr == prog[p + 1]
            whole == closure_onto(curr, p, a.ps, a.state)
            lower == closure_onto(<< >>, p + 1, a.ps, a.state).threads
            jump == closure_onto(<< >>, instr.ip, a.ps, a.state).threads
        IN  (instr.op \in {"Split", "JSplit"} /\ whole.err = "none") =>
                whole.threads = curr \o (IF instr.op = "Split" THEN lower \o jump
                                         ELSE jump \o lower)

\* a fork was admitted onto a list that holds a thread, and one of its
\* branches has made an update that the other branch has not
C24_Witness ==
    /\ curr # << >>
    /\ \E a \in Admissions : \E p \in 0..(Len(prog) - 1) :
           /\ prog[p + 1].op \in {"Split", "JSplit"}
           /\ closure_onto(<< >>, p, a.ps, a.state).err = "none"
           /\ \E th \in {closure_onto(<< >>, p + 1, a.ps, a.state).threads[k] :
                            k \in 1..Len(closure_onto(<< >>, p + 1, a.ps, a.state).threads)} :
                  \E tj \in {closure_onto(<< >>, prog[p + 1].ip, a.ps, a.state).threads[k] :
                                k \in 1..Len(closure_onto(<< >>, prog[p + 1].ip, a.ps,
                                                          a.state).threads)} :
                      th.state # a.state /\ tj.state = a.state
           /\ a.ps.token_index > 0

\* ---- C25 ----

\* the states of the threads at a Match pc in a list, in list order
RECURSIVE states_at_match(_)
states_at_match(list) ==
    IF list = << >> THEN << >>
    ELSE (IF prog[Head(list).pc + 1].op = "Match" THEN <<Head(list).state>> ELSE << >>)
         \o states_at_match(Tail(list))

\* the list exec stored threads into in the step a snapshot was taken after
stored_list(snap) ==
    CASE snap.phase = "loop" -> snap.curr
      [] snap.phase = "sweep" -> snap.next
      [] OTHER -> << >>

\* the states of all threads ever stored at a Match pc, in the order of the
\* steps that stored them: the k-th snapshot is taken at input position
\* min(k-1, Len(input))
RECURSIVE ever_at_match(_)
ever_at_match(tr) ==
    IF tr = << >> THEN << >>
    ELSE ever_at_match(SubSeq(tr, 1, Len(tr) - 1))
         \o states_at_match(stored_list(tr[Len(tr)]))

\* C25: every thread stored in a list at a Match pc is recorded exactly once,
\* by the step on the next token or by one of the two sweeps: the results,
\* followed by the threads at Match still waiting in the list, are the
\* threads ever stored at Match in the order of the positions they were
\* stored at, and all of them are in the result when exec returns
C25_MatchRecordedOnce ==
    /\ phase \in {"loop", "sweep", "done"} =>
           states \o states_at_match(stored_list(Snapshot)) = ever_at_match(trace)
    /\ phase = "done" =>
           /\ states = ever_at_match(trace)
           /\ curr = << >> /\ next = << >>

\* exec has returned results recorded by a step on a token, by the sweep of
\* curr and by the sweep of next
C25_Witness ==
    /\ phase = "done"
    /\ \E k \in 1..(Len(trace) - 1) :
           /\ trace[k].phase = "loop" /\ trace[k + 1].phase = "loop"
           /\ states_at_match(trace[k].curr) # << >>
    /\ \E k \in 1..(Len(trace) - 1) :
           /\ trace[k].phase = "loop" /\ trace[k + 1].phase = "sweep"
           /\ states_at_match(trace[k].curr) # << >>
    /\ \E k \in 1..Len(trace) :
           trace[k].phase = "sweep" /\ states_at_match(trace[k].next) # << >>

\* ---- C26 ----

\* the instructions that can continue to pc+1
ContinuingOps ==
    {"Token", "Any", "Set", "Map", "WordBoundary", "Split", "JSplit", "UpdateState"}

\* every Split, JSplit, Jump and Map target is less than the program length
TargetsInRange ==
    \A k \in 1..Len(prog) :
        /\ prog[k].op \in {"Split", "JSplit", "Jump"} => prog[k].ip < Len(prog)
        /\ prog[k].op = "Map" => \A m \in prog[k].map : m[2] < Len(prog)

\* no instruction that can continue to pc+1 is the last one
LastDoesNotContinue ==
    \A k \in 1..Len(prog) : prog[k].op \in ContinuingOps => k < Len(prog)

\* C26 as stated: a program with all targets in range and no continuing
\* instruction at its end never makes exec access an instruction out of range
C26_NoOutOfRangeAccess ==
    (TargetsInRange /\ LastDoesNotContinue) => phase # "index"

\* C26 amended: the same for a program that has at least one instruction
C26_NonEmptyNoOutOfRangeAccess ==
    (prog # << >> /\ TargetsInRange /\ LastDoesNotContinue) => phase # "index"

\* exec has returned on an input with tokens for a program that jumps or
\* forks to its last instruction
C26_Witness ==
    /\ phase = "done" /\ input # << >>
    /\ prog # << >> /\ TargetsInRange /\ LastDoesNotContinue
    /\ \E k \in 1..Len(prog) :
           prog[k].op \in {"Split", "JSplit", "Jump"} /\ prog[k].ip = Len(prog) - 1
    /\ states # << >>

\* ------------------------------------------------------------------ C27

\* the positions of the instructions the label name is placed before
placements(name) ==
    {k \in 1..Len(source.items) : source.items[k].label = Some(name)}

\* the vector handed to Program::new when every label is written as the number at[label]
numeric_program(at) ==
    [j \in 1..Len(source.items) |->
        instruction(source.items[j], {<<n, at[n]>> : n \in DOMAIN at})]

\* the ways of giving every label the zero-based index of an instruction it is placed before
Resolutions ==
    {at \in [bound(source.items) -> 0..Len(source.items)] :
        \A n \in DOMAIN at : at[n] + 1 \in placements(n)}

\* every label given the index of the last instruction it is placed before
last_placement ==
    [n \in bound(source.items) |->
        (CHOOSE k \in placements(n) : \A m \in placements(n) : m <= k) - 1]

\* no label is placed before two instructions
LabelsDistinct ==
    \A n \in bound(source.items) : Cardinality(placements(n)) = 1

\* C27: a label placed before an instruction resolves to the zero-based index
\* of that instruction, for references before and after it, and the program
\* the macro builds is the one Program::new builds from the numeric targets
\* and the same init value
C27_LabelIsInstructionIndex ==
    phase = "built" =>
        /\ \A at \in Resolutions : prog = numeric_program(at)
        /\ state_init = source.init

\* C27 (amended): a label resolves to the index of the last instruction it is
\* placed before; when no label is placed twice that is the index of the one
\* instruction it is placed before, and the macro's program is the numeric one
C27_LabelIsLastPlacement ==
    phase = "built" =>
        /\ prog = numeric_program(last_placement)
        /\ state_init = source.init
        /\ LabelsDistinct => \A at \in Resolutions : prog = numeric_program(at)
        /\ source = test_macro_source => prog = test_program /\ state_init = 6

\* the test's invocation is expanded: l1, l2, l3 are referenced before their
\* placement and l0 after it
C27_Witness ==
    /\ phase = "built"
    /\ source = test_macro_source
    /\ LabelsDistinct
    /\ prog = test_program
    /\ prog[1].ip = 3
    /\ prog[3].ip = 0

====
